---------------------------- MODULE Spec2Model ----------------------------
(***************************************************************************)
(* A model of the legal search front end (src/app.py) and of its           *)
(* generator client (src/llm.py).                                          *)
(*                                                                         *)
(* A Python str is a sequence of Unicode code points and a bytes object a  *)
(* sequence of numbers 0..255, so that escaping, lower-casing, splitting   *)
(* and base64 are computed as the code computes them.  Every text of the   *)
(* model has code points below 2048 (one or two UTF-8 bytes).              *)
(***************************************************************************)
EXTENDS Integers, Sequences, FiniteSets, TLC

(***************************************************************************)
(* Text helpers: str.lower, str.split, str.join, str.replace               *)
(***************************************************************************)

\* The whitespace str.split() separates on (code points below 256).
IsSpace(c) == c \in {9, 10, 11, 12, 13, 28, 29, 30, 31, 32, 133, 160}

\* str.lower() of one code point (ASCII and Latin-1 upper case letters).
LowerChar(c) ==
    IF (c >= 65 /\ c <= 90) \/ (c >= 192 /\ c <= 222 /\ c # 215) THEN c + 32 ELSE c

Lower(s) == [i \in 1..Len(s) |-> LowerChar(s[i])]

RECURSIVE SplitAcc(_, _, _, _)
SplitAcc(s, i, cur, acc) ==
    IF i > Len(s)
    THEN IF cur = <<>> THEN acc ELSE Append(acc, cur)
    ELSE IF IsSpace(s[i])
         THEN SplitAcc(s, i + 1, <<>>, IF cur = <<>> THEN acc ELSE Append(acc, cur))
         ELSE SplitAcc(s, i + 1, Append(cur, s[i]), acc)

\* text.split(): the maximal runs of non-whitespace, in order.
Split(s) == SplitAcc(s, 1, <<>>, <<>>)

\* F(x) with x evaluated once, whatever the number of times F reads it.
Bind(x, F(_)) == CHOOSE y \in {F(v) : v \in {x}} : TRUE

RECURSIVE ConcatRange(_, _, _)
ConcatRange(ss, lo, hi) ==
    IF lo > hi THEN <<>>
    ELSE IF lo = hi THEN ss[lo]
    ELSE ConcatRange(ss, lo, (lo + hi) \div 2) \o ConcatRange(ss, (lo + hi) \div 2 + 1, hi)

\* The concatenation of a sequence of sequences (by halves, so that long
\* texts do not nest deeply).
Concat(ss) == Bind(ss, LAMBDA v : ConcatRange(v, 1, Len(v)))

\* sep.join(parts)
Join(sep, parts) ==
    Bind(parts, LAMBDA ps :
        Concat([i \in 1..(2 * Len(ps) - 1) |-> IF i % 2 = 1 THEN ps[(i + 1) \div 2] ELSE sep]))

StartsWithAt(s, i, old) ==
    /\ i + Len(old) - 1 <= Len(s)
    /\ \A k \in 1..Len(old) : s[i + k - 1] = old[k]

\* s.replace(old, new) for a non-empty old: the occurrences of old taken
\* left to right, none overlapping one taken before it.
Replace(s, old, new) ==
    Bind(s, LAMBDA v :
        LET RECURSIVE taken(_)
            taken(p) ==
                /\ StartsWithAt(v, p, old)
                /\ \A q \in 1..(Len(old) - 1) : p - q < 1 \/ ~taken(p - q)
            covered(p) == \E q \in 1..(Len(old) - 1) : p - q >= 1 /\ taken(p - q)
        IN  Concat([p \in 1..Len(v) |->
                IF covered(p) THEN <<>>
                ELSE IF taken(p) THEN new
                ELSE <<v[p]>>]))

(***************************************************************************)
(* Stopwords and Term (src/app.py)                                         *)
(***************************************************************************)

\* "of", "the", "a": three members of nltk's English stopword list.
STOPWORDS == {<<111, 102>>, <<116, 104, 101>>, <<97>>}

remove_stopwords(text) ==
    LET keep(word) == Lower(word) \notin STOPWORDS
    IN  Bind(text, LAMBDA v : Join(<<32>>, SelectSeq(Split(v), keep)))

\* Term.__init__
Term(text) == [text |-> text, no_stop |-> remove_stopwords(text)]


(***************************************************************************)
(* Python values of dynamic type are records tagged with the type: a str,  *)
(* a list, a dict (its items in insertion order) and an int.               *)
(* json.dumps / json.loads on the values the codec handles: str, list (a   *)
(* tuple is dumped as a list) and dict.                                    *)
(***************************************************************************)

PyStr(s) == [t |-> "str", v |-> s]
PyList(xs) == [t |-> "list", v |-> xs]
PyDict(items) == [t |-> "dict", v |-> items]
PyInt(n) == [t |-> "int", v |-> n]

S_resp == <<114, 101, 115, 112>>
S_search == <<115, 101, 97, 114, 99, 104>>
S_highlight == <<104, 105, 103, 104, 108, 105, 103, 104, 116>>
S_text == <<116, 101, 120, 116>>
S_no_stop == <<110, 111, 95, 115, 116, 111, 112>>

HexDigit(n) == IF n < 10 THEN 48 + n ELSE 87 + n

HexVal(c) ==
    IF c >= 48 /\ c <= 57 THEN c - 48
    ELSE IF c >= 97 /\ c <= 102 THEN c - 87
    ELSE IF c >= 65 /\ c <= 70 THEN c - 55
    ELSE -1

\* json.encoder.py_encode_basestring_ascii, one code point (ensure_ascii=True).
EscapeChar(c) ==
    IF c = 34 THEN <<92, 34>>
    ELSE IF c = 92 THEN <<92, 92>>
    ELSE IF c = 8 THEN <<92, 98>>
    ELSE IF c = 12 THEN <<92, 102>>
    ELSE IF c = 10 THEN <<92, 110>>
    ELSE IF c = 13 THEN <<92, 114>>
    ELSE IF c = 9 THEN <<92, 116>>
    ELSE IF c >= 32 /\ c <= 126 THEN <<c>>
    ELSE <<92, 117, HexDigit(c \div 4096), HexDigit((c \div 256) % 16),
           HexDigit((c \div 16) % 16), HexDigit(c % 16)>>

EscapeStr(s) == Concat([i \in 1..Len(s) |-> EscapeChar(s[i])])

RECURSIVE JsonDumps(_)
\* json.dumps(v, separators=(",", ":"))
JsonDumps(v) ==
    IF v.t = "str" THEN <<34>> \o EscapeStr(v.v) \o <<34>>
    ELSE IF v.t = "list"
    THEN <<91>> \o Join(<<44>>, [i \in 1..Len(v.v) |-> JsonDumps(v.v[i])]) \o <<93>>
    ELSE <<123>>
         \o Join(<<44>>, [i \in 1..Len(v.v) |->
                <<34>> \o EscapeStr(v.v[i][1]) \o <<34, 58>> \o JsonDumps(v.v[i][2])])
         \o <<125>>

Fail == [ok |-> FALSE]

RECURSIVE SkipWs(_, _)
SkipWs(s, i) ==
    IF i <= Len(s) /\ s[i] \in {32, 9, 10, 13} THEN SkipWs(s, i + 1) ELSE i

\* The character a backslash escape stands for (json.decoder.BACKSLASH), or -1.
Unescape(e) ==
    IF e \in {34, 92, 47} THEN e
    ELSE IF e = 98 THEN 8
    ELSE IF e = 102 THEN 12
    ELSE IF e = 110 THEN 10
    ELSE IF e = 114 THEN 13
    ELSE IF e = 116 THEN 9
    ELSE -1

RECURSIVE ParseStr(_, _, _)
\* json.decoder.py_scanstring (strict) from index i, after the opening quote:
\* [ok, v: the text, i: the index after the closing quote].
ParseStr(s, i, acc) ==
    IF i > Len(s) THEN Fail
    ELSE IF s[i] = 34 THEN [ok |-> TRUE, v |-> acc, i |-> i + 1]
    ELSE IF s[i] = 92
    THEN IF i + 1 > Len(s) THEN Fail
         ELSE IF s[i + 1] = 117
         THEN IF i + 5 <= Len(s) /\ \A k \in 2..5 : HexVal(s[i + k]) >= 0
              THEN ParseStr(s, i + 6,
                       Append(acc, HexVal(s[i + 2]) * 4096 + HexVal(s[i + 3]) * 256
                                   + HexVal(s[i + 4]) * 16 + HexVal(s[i + 5])))
              ELSE Fail
         ELSE IF Unescape(s[i + 1]) >= 0
              THEN ParseStr(s, i + 2, Append(acc, Unescape(s[i + 1])))
              ELSE Fail
    ELSE IF s[i] < 32 THEN Fail
    ELSE ParseStr(s, i + 1, Append(acc, s[i]))

RECURSIVE ParseValue(_, _)
RECURSIVE ParseArrItems(_, _, _)
RECURSIVE ParseObjItems(_, _, _)

\* json.scanner.py_make_scanner._scan_once; a number or a literal is outside
\* the model's alphabet and fails like any other unexpected character.
ParseValue(s, i) ==
    IF i > Len(s) THEN Fail
    ELSE IF s[i] = 34
    THEN Bind(ParseStr(s, i + 1, <<>>), LAMBDA r :
             IF r.ok THEN [ok |-> TRUE, v |-> PyStr(r.v), i |-> r.i] ELSE Fail)
    ELSE IF s[i] = 91
    THEN Bind(SkipWs(s, i + 1), LAMBDA j :
             IF j <= Len(s) /\ s[j] = 93
             THEN [ok |-> TRUE, v |-> PyList(<<>>), i |-> j + 1]
             ELSE ParseArrItems(s, j, <<>>))
    ELSE IF s[i] = 123
    THEN Bind(SkipWs(s, i + 1), LAMBDA j :
             IF j <= Len(s) /\ s[j] = 125
             THEN [ok |-> TRUE, v |-> PyDict(<<>>), i |-> j + 1]
             ELSE ParseObjItems(s, j, <<>>))
    ELSE Fail

\* json.decoder.JSONArray, at the start of an element.
ParseArrItems(s, i, acc) ==
    Bind(ParseValue(s, i), LAMBDA r :
        IF ~r.ok THEN Fail
        ELSE Bind(SkipWs(s, r.i), LAMBDA j :
            IF j > Len(s) THEN Fail
            ELSE IF s[j] = 93
            THEN [ok |-> TRUE, v |-> PyList(Append(acc, r.v)), i |-> j + 1]
            ELSE IF s[j] = 44
            THEN Bind(<<SkipWs(s, j + 1), Append(acc, r.v)>>, LAMBDA n :
                     ParseArrItems(s, n[1], n[2]))
            ELSE Fail))

\* json.decoder.JSONObject, at the start of a key.
ParseObjItems(s, i, acc) ==
    IF i > Len(s) \/ s[i] # 34 THEN Fail
    ELSE Bind(ParseStr(s, i + 1, <<>>), LAMBDA k :
        IF ~k.ok THEN Fail
        ELSE Bind(SkipWs(s, k.i), LAMBDA c :
            IF c > Len(s) \/ s[c] # 58 THEN Fail
            ELSE Bind(ParseValue(s, SkipWs(s, c + 1)), LAMBDA r :
                IF ~r.ok THEN Fail
                ELSE Bind(<<SkipWs(s, r.i), Append(acc, <<k.v, r.v>>)>>, LAMBDA n :
                    IF n[1] > Len(s) THEN Fail
                    ELSE IF s[n[1]] = 125
                    THEN [ok |-> TRUE, v |-> PyDict(n[2]), i |-> n[1] + 1]
                    ELSE IF s[n[1]] = 44
                    THEN Bind(SkipWs(s, n[1] + 1), LAMBDA m : ParseObjItems(s, m, n[2]))
                    ELSE Fail))))

\* json.loads(s): one value, whitespace around it, nothing after it.
JsonLoads(s) ==
    Bind(ParseValue(s, SkipWs(s, 1)), LAMBDA r :
        IF r.ok /\ SkipWs(s, r.i) > Len(s) THEN [ok |-> TRUE, v |-> r.v] ELSE Fail)

\* key in d, for a dict d
ObjHas(d, key) == \E i \in 1..Len(d.v) : d.v[i][1] = key

\* d[key]: a key given twice in the text keeps its last value.
ObjGet(d, key) ==
    LET last == CHOOSE i \in 1..Len(d.v) :
                    d.v[i][1] = key /\ \A j \in (i + 1)..Len(d.v) : d.v[j][1] # key
    IN  d.v[last][2]

\* What a for loop over the value yields: a list's elements, a dict's keys,
\* a str's characters.
Iter(v) ==
    IF v.t = "list" THEN v.v
    ELSE IF v.t = "dict"
    THEN LET first(i) == \A j \in 1..(i - 1) : v.v[j][1] # v.v[i][1]
             keys == SelectSeq([i \in 1..Len(v.v) |-> i], first)
         IN  [n \in 1..Len(keys) |-> PyStr(v.v[keys[n]][1])]
    ELSE [i \in 1..Len(v.v) |-> PyStr(<<v.v[i]>>)]

(***************************************************************************)
(* UTF-8 and URL-safe base64                                               *)
(***************************************************************************)

\* str.encode(), code points below 2048.
Utf8Encode(s) ==
    Concat([i \in 1..Len(s) |->
        IF s[i] < 128 THEN <<s[i]>> ELSE <<192 + (s[i] \div 64), 128 + (s[i] % 64)>>])

\* bytes.decode(): one- and two-byte sequences; any other byte raises.
Utf8Decode(b) ==
    LET lead(i) == b[i] >= 194 /\ b[i] <= 223
        cont(i) == b[i] >= 128 /\ b[i] <= 191
        valid(i) ==
            \/ b[i] < 128
            \/ lead(i) /\ i < Len(b) /\ cont(i + 1)
            \/ cont(i) /\ i > 1 /\ lead(i - 1)
        piece(i) ==
            IF b[i] < 128 THEN <<b[i]>>
            ELSE IF lead(i) THEN <<(b[i] - 192) * 64 + (b[i + 1] - 128)>>
            ELSE <<>>
    IN  IF \A i \in 1..Len(b) : valid(i)
        THEN [ok |-> TRUE, v |-> Concat([i \in 1..Len(b) |-> piece(i)])]
        ELSE Fail

\* The URL-safe alphabet: A-Z a-z 0-9 - _
B64Char(n) ==
    IF n < 26 THEN 65 + n
    ELSE IF n < 52 THEN 97 + (n - 26)
    ELSE IF n < 62 THEN 48 + (n - 52)
    ELSE IF n = 62 THEN 45
    ELSE 95

\* The value of a character after urlsafe_b64decode's translation of - and _
\* to + and /, which leaves + and / themselves valid; -1 is not in the alphabet.
B64Val(c) ==
    IF c >= 65 /\ c <= 90 THEN c - 65
    ELSE IF c >= 97 /\ c <= 122 THEN c - 97 + 26
    ELSE IF c >= 48 /\ c <= 57 THEN c - 48 + 52
    ELSE IF c \in {45, 43} THEN 62
    ELSE IF c \in {95, 47} THEN 63
    ELSE -1

\* The four characters that encode the group of (up to) three bytes at i.
B64Quad(b, i) ==
    LET n == Len(b) - i + 1
    IN  IF n = 1
        THEN <<B64Char(b[i] \div 4), B64Char((b[i] % 4) * 16), 61, 61>>
        ELSE IF n = 2
        THEN <<B64Char(b[i] \div 4), B64Char((b[i] % 4) * 16 + b[i + 1] \div 16),
               B64Char((b[i + 1] % 16) * 4), 61>>
        ELSE <<B64Char(b[i] \div 4), B64Char((b[i] % 4) * 16 + b[i + 1] \div 16),
               B64Char((b[i + 1] % 16) * 4 + b[i + 2] \div 64), B64Char(b[i + 2] % 64)>>

\* base64.urlsafe_b64encode(b), as a str
urlsafe_b64encode(b) ==
    Concat([q \in 1..((Len(b) + 2) \div 3) |-> B64Quad(b, 3 * q - 2)])

\* binascii.a2b_base64 in its default, non-strict mode.  The loop skips the
\* characters outside the alphabet, stops at the padding character that
\* completes a group already holding two or three data characters, and raises
\* when the input ends inside a group.
a2b_base64(s) ==
    LET isData(i) == B64Val(s[i]) >= 0
        quad_pos(i) == Cardinality({j \in 1..(i - 1) : isData(j)}) % 4
        pads(i) ==
            LET k == CHOOSE k \in 0..(i - 1) :
                         /\ k = 0 \/ isData(k)
                         /\ \A m \in (k + 1)..(i - 1) : ~isData(m)
            IN  Cardinality({m \in (k + 1)..(i - 1) : s[m] = 61})
        stops == {i \in 1..Len(s) :
                     s[i] = 61 /\ quad_pos(i) >= 2 /\ quad_pos(i) + pads(i) + 1 >= 4}
        valid(c) == B64Val(c) >= 0
        group(data, q) ==
            LET k == 4 * q - 3
                n == Len(data) - k + 1
                v(m) == B64Val(data[m])
            IN  IF n = 2 THEN <<v(k) * 4 + v(k + 1) \div 16>>
                ELSE IF n = 3
                THEN <<v(k) * 4 + v(k + 1) \div 16,
                       (v(k + 1) % 16) * 16 + v(k + 2) \div 4>>
                ELSE <<v(k) * 4 + v(k + 1) \div 16,
                       (v(k + 1) % 16) * 16 + v(k + 2) \div 4,
                       (v(k + 2) % 4) * 64 + v(k + 3)>>
    IN  Bind(stops, LAMBDA st :
            Bind(SelectSeq(SubSeq(s, 1, IF st = {} THEN Len(s)
                                        ELSE (CHOOSE i \in st : \A j \in st : i <= j) - 1),
                           valid),
                 LAMBDA data :
                     IF (st = {} /\ Len(data) % 4 # 0) \/ Len(data) % 4 = 1 THEN Fail
                     ELSE [ok |-> TRUE,
                           v |-> Concat([q \in 1..((Len(data) + 3) \div 4) |->
                                            group(data, q)])]))

\* base64.urlsafe_b64decode(b)
urlsafe_b64decode(b) == a2b_base64(b)

(***************************************************************************)
(* Session state codec (src/app.py).  A turn of the log is the pair        *)
(* <<query, resp>> with resp = [search |-> groups of Terms,                *)
(* highlight |-> Terms].                                                   *)
(***************************************************************************)

AllOk(rs) == \A i \in 1..Len(rs) : rs[i].ok
Vals(rs) == [i \in 1..Len(rs) |-> rs[i].v]

\* Term.to_dict
Term_to_dict(term) ==
    PyDict(<< <<S_text, PyStr(term.text)>>, <<S_no_stop, PyStr(term.no_stop)>> >>)

\* Term.from_dict with the stored no_stop dropped: the form is recomputed.
Term_from_dict_recomputed(data) ==
    IF data.t = "dict" /\ ObjHas(data, S_text) /\ ObjGet(data, S_text).t = "str"
    THEN [ok |-> TRUE, v |-> Term(ObjGet(data, S_text).v)]
    ELSE Fail

\* Term.from_dict.  data["text"] of a str or a list raises, Term() of a text
\* that is no str raises in remove_stopwords; a no_stop that is no str is kept
\* by the source and is outside the model's logs, so it is refused here.
Term_from_dict(data) ==
    IF /\ data.t = "dict"
       /\ ObjHas(data, S_text) /\ ObjGet(data, S_text).t = "str"
       /\ ObjHas(data, S_no_stop) /\ ObjGet(data, S_no_stop).t = "str"
    THEN [ok |-> TRUE,
          v |-> [Term(ObjGet(data, S_text).v) EXCEPT !.no_stop = ObjGet(data, S_no_stop).v]]
    ELSE Fail

\* SearchHighlightResponseWithNoStop.to_dict
SearchHighlightResponseWithNoStop_to_dict(resp) ==
    PyDict(<< <<S_search,
              PyList([g \in 1..Len(resp.search) |->
                  PyList([k \in 1..Len(resp.search[g]) |-> Term_to_dict(resp.search[g][k])])])>>,
            <<S_highlight,
              PyList([k \in 1..Len(resp.highlight) |-> Term_to_dict(resp.highlight[k])])>> >>)

\* SearchHighlightResponseWithNoStop.from_dict
SearchHighlightResponseWithNoStop_from_dict(data) ==
    IF data.t = "dict" /\ ObjHas(data, S_search) /\ ObjHas(data, S_highlight)
    THEN LET terms(group) == Bind(Iter(group), LAMBDA ts :
                                 [k \in 1..Len(ts) |-> Term_from_dict(ts[k])])
             groups(search) == Bind(Iter(search), LAMBDA gs :
                                  [g \in 1..Len(gs) |-> terms(gs[g])])
         IN  Bind(<<groups(ObjGet(data, S_search)), terms(ObjGet(data, S_highlight))>>,
                  LAMBDA r :
                      IF (\A g \in 1..Len(r[1]) : AllOk(r[1][g])) /\ AllOk(r[2])
                      THEN [ok |-> TRUE,
                            v |-> [search |-> [g \in 1..Len(r[1]) |-> Vals(r[1][g])],
                                   highlight |-> Vals(r[2])]]
                      ELSE Fail)
    ELSE Fail

encode_queries(queries) ==
    LET serializable ==
            [i \in 1..Len(queries) |->
                PyList(<<PyStr(queries[i][1]),
                         SearchHighlightResponseWithNoStop_to_dict(queries[i][2])>>)]
    IN  Bind(PyDict(<< <<S_resp, PyList(serializable)>> >>), LAMBDA data :
            Bind(JsonDumps(data), LAMBDA json_str :
                Bind(Utf8Encode(json_str), LAMBDA bytes : urlsafe_b64encode(bytes))))

\* One "for query, resp in data['resp']" step: the element unpacks into
\* exactly two values.  A query that is no str is kept by the source (and
\* fails later, in the join of line 314); it is outside the model's logs and
\* refused here.
DecodeTurn(e) ==
    Bind(Iter(e), LAMBDA it :
        IF Len(it) # 2 \/ it[1].t # "str" THEN Fail
        ELSE Bind(SearchHighlightResponseWithNoStop_from_dict(it[2]), LAMBDA r :
                 IF r.ok THEN [ok |-> TRUE, v |-> <<it[1].v, r.v>>] ELSE Fail))

\* The comprehension of line 117 over the loaded data.
DecodeData(data) ==
    IF data.t # "dict" \/ ~ObjHas(data, S_resp) THEN Fail
    ELSE Bind(Iter(ObjGet(data, S_resp)), LAMBDA items :
             Bind([i \in 1..Len(items) |-> DecodeTurn(items[i])], LAMBDA turns :
                 IF AllOk(turns) THEN [ok |-> TRUE, v |-> Vals(turns)] ELSE Fail))

\* decode_queries: [ok |-> TRUE, v |-> the log], or Fail when any step raises.
decode_queries(encoded_str) ==
    Bind(Utf8Encode(encoded_str), LAMBDA bytes :
        Bind(urlsafe_b64decode(bytes), LAMBDA b :
            IF ~b.ok THEN Fail
            ELSE Bind(Utf8Decode(b.v), LAMBDA json_str :
                IF ~json_str.ok THEN Fail
                ELSE Bind(JsonLoads(json_str.v), LAMBDA data :
                    IF ~data.ok THEN Fail ELSE DecodeData(data.v)))))

(***************************************************************************)
(* The generator client (src/llm.py)                                       *)
(***************************************************************************)

\* An optional value (None or a value) is the empty or the one-element sequence.
None == <<>>
Some(x) == <<x>>

\* A generator output is the text's value under ast.literal_eval, or
\* SyntaxErrorText for a text that literal_eval raises on.
SyntaxErrorText == [t |-> "invalid", v |-> <<>>]

IsListOfStr(x) == x.t = "list" /\ \A i \in 1..Len(x.v) : x.v[i].t = "str"

StrList(x) == [i \in 1..Len(x.v) |-> x.v[i].v]

\* SearchHighlightResponse.__init__ on the validated lists
SearchHighlightResponse(search, highlight) ==
    [search |-> search, highlight |-> highlight]

\* ChatGPTTupleArrayFetcher._try_parse_search_highlight_json: the parsed
\* response, or None (also when literal_eval raises).
try_parse_search_highlight_json(output) ==
    IF /\ output.t = "dict"
       /\ ObjHas(output, S_search)
       /\ ObjHas(output, S_highlight)
       /\ IsListOfStr(ObjGet(output, S_highlight))
       /\ ObjGet(output, S_search).t = "list"
       /\ \A i \in 1..Len(ObjGet(output, S_search).v) :
              IsListOfStr(ObjGet(output, S_search).v[i])
    THEN LET search == ObjGet(output, S_search).v
         IN  Some(SearchHighlightResponse([i \in 1..Len(search) |-> StrList(search[i])],
                                          StrList(ObjGet(output, S_highlight))))
    ELSE None

(***************************************************************************)
(* Query builder and result post-processing (src/app.py)                   *)
(***************************************************************************)

\* SearchHighlightResponseWithNoStop.from_search_highlight_response
from_search_highlight_response(resp) ==
    [search |-> [g \in 1..Len(resp.search) |->
                    [k \in 1..Len(resp.search[g]) |-> Term(resp.search[g][k])]],
     highlight |-> [k \in 1..Len(resp.highlight) |-> Term(resp.highlight[k])]]

\* A match_phrase clause on document_text with a boost, and one without.
MatchPhraseBoost(query, boost) ==
    [match_phrase |-> [document_text |-> [query |-> query, slop |-> 20, boost |-> boost]]]

MatchPhrase(query) ==
    [match_phrase |-> [document_text |-> [query |-> query, slop |-> 20]]]

\* Lines 159-174 alone: the clauses of the highlight terms, none for the
\* phrases of the groups.
highlight_functions_latest_only(queries, highlights) ==
    LET ofHighlight(highlight) ==
            IF highlight.no_stop = <<>> THEN <<>>
            ELSE <<MatchPhraseBoost(highlight.no_stop, 1)>>
    IN  Concat([k \in 1..Len(highlights) |-> ofHighlight(highlights[k])])

\* Lines 133-174: two clauses for every phrase of every group of every turn,
\* then one for every highlight term whose stripped form is not empty.
highlight_functions(queries, highlights) ==
    LET ofPhrase(phrase) ==
            <<MatchPhraseBoost(phrase.text, 10), MatchPhraseBoost(phrase.no_stop, 5)>>
        ofGroup(phrases) == Concat([k \in 1..Len(phrases) |-> ofPhrase(phrases[k])])
        ofQuery(query) == Concat([g \in 1..Len(query) |-> ofGroup(query[g])])
        ofHighlight(highlight) ==
            IF highlight.no_stop = <<>> THEN <<>>
            ELSE <<MatchPhraseBoost(highlight.no_stop, 1)>>
    IN  Concat([q \in 1..Len(queries) |-> ofQuery(queries[q])])
        \o Concat([k \in 1..Len(highlights) |-> ofHighlight(highlights[k])])

\* Lines 175-194 with one bool clause for every turn, over the phrases of
\* all its groups.
filter_per_turn(queries) ==
    LET ofGroup(phrases) == [k \in 1..Len(phrases) |-> MatchPhrase(phrases[k].no_stop)]
        ofQuery(query) ==
            [bool |-> [should |-> Concat([g \in 1..Len(query) |-> ofGroup(query[g])]),
                       minimum_should_match |-> 1]]
    IN  [q \in 1..Len(queries) |-> ofQuery(queries[q])]

\* Lines 175-194: one bool clause for every group of every turn.
filter(queries) ==
    LET ofGroup(phrases) ==
            [bool |-> [should |-> [k \in 1..Len(phrases) |-> MatchPhrase(phrases[k].no_stop)],
                       minimum_should_match |-> 1]]
        ofQuery(query) == [g \in 1..Len(query) |-> ofGroup(query[g])]
    IN  Concat([q \in 1..Len(queries) |-> ofQuery(queries[q])])

\* Lines 121-131
functions ==
    << [gauss |-> [document_date |-> [origin |-> "now", scale |-> "300d", decay |-> "0.99"]]] >>

build_query(queries, highlights, plain_query) ==
    [query |->
        [function_score |->
            [query |-> [bool |-> [must |-> filter(queries)]],
             functions |-> functions,
             score_mode |-> "multiply",
             boost_mode |-> "replace"]],
     suggest |->
        [text |-> plain_query,
         spellcheck |-> [term |-> [field |-> "document_text", suggest_mode |-> "always"]]],
     highlight |->
        [fields |->
            [document_text |->
                [fragment_size |-> 50,
                 number_of_fragments |-> 18,
                 type |-> "unified",
                 matched_fields |-> <<"document_text">>,
                 highlight_query |->
                    [bool |-> [should |-> highlight_functions(queries, highlights)]]]],
         fragmenter |-> "score_ordered",
         require_field_match |-> TRUE],
     size |-> 50]

\* Line 299: the call search() makes, on the log that ends with the new turn.
build_query_of_log(queries, res_with_no_stop, query_text) ==
    Bind([i \in 1..Len(queries) |-> queries[i][2].search], LAMBDA groups :
        build_query(groups, res_with_no_stop.highlight, query_text))

\* Line 245 with >= in place of each >.
AcceptOptionAtLeast(option) ==
    \/ option.freq >= 5 /\ option.score >= 90
    \/ option.freq >= 50 /\ option.score >= 70

\* Line 245: the test on the first option of a suggestion entry.  A score is
\* held in hundredths (score 0.9 is 90), a frequency as it is.
AcceptOption(option) ==
    \/ option.freq > 5 /\ option.score > 90
    \/ option.freq > 50 /\ option.score > 70

\* Lines 242-248: the token kept for every suggestion entry.
corrected_terms(suggestions) ==
    LET term(entry) ==
            IF entry.options # <<>> /\ AcceptOption(entry.options[1])
            THEN entry.options[1].text
            ELSE entry.text
    IN  [i \in 1..Len(suggestions) |-> term(suggestions[i])]

\* get_corrected_query on response.get("suggest", {}).get("spellcheck", []),
\* the list being empty when either key is absent.
get_corrected_query(suggestions, query) ==
    Bind(Join(<<32>>, corrected_terms(suggestions)), LAMBDA corrected_query :
        IF Lower(corrected_query) = Lower(query) THEN <<>> ELSE corrected_query)

S_em == <<60, 101, 109, 62>>
S_em_close == <<60, 47, 101, 109, 62>>
S_mark ==
    <<60, 109, 97, 114, 107, 32, 115, 116, 121, 108, 101, 61, 39, 98, 97, 99, 107,
      103, 114, 111, 117, 110, 100, 45, 99, 111, 108, 111, 114, 58, 32, 35, 102,
      102, 102, 102, 48, 48, 59, 32, 102, 111, 110, 116, 45, 119, 101, 105, 103,
      104, 116, 58, 32, 98, 111, 108, 100, 59, 39, 62>>
S_mark_close == <<60, 47, 109, 97, 114, 107, 62>>

\* get_snippets: highlights is the dict's values, one list of fragments for
\* each highlighted field.
get_snippets(highlights) ==
    Bind(Concat(highlights), LAMBDA all_snippets :
        [i \in 1..Len(all_snippets) |->
            Replace(Replace(all_snippets[i], S_em, S_mark), S_em_close, S_mark_close)])

\* "https://thejudgements.in/searchResult?url="
JUDGMENT_PAGE_URL ==
    <<104, 116, 116, 112, 115, 58, 47, 47, 116, 104, 101, 106, 117, 100, 103, 101,
      109, 101, 110, 116, 115, 46, 105, 110, 47, 115, 101, 97, 114, 99, 104, 82,
      101, 115, 117, 108, 116, 63, 117, 114, 108, 61>>

\* get_document_url on hit["_source"].get("document_url", "")
get_document_url(url) == IF Len(url) = 0 THEN url ELSE JUDGMENT_PAGE_URL \o url

(***************************************************************************)
(* The request handler search() (src/app.py, lines 279-315) and, inside    *)
(* it, the retry loop of fetch_search_highlight (src/llm.py, lines         *)
(* 264-274).  One request is handled at a time; its local variables are    *)
(* the variables below, and page is the response the client last got.      *)
(***************************************************************************)

VARIABLES
    pc,                        \* where the handler (or the function under test) is
    nreq,                      \* requests received so far
    page,                      \* the page the client holds: None, or Some(rendered values)
    request,                   \* the request being handled
    query_text,
    previous_queries_encoded,
    queries,
    max_retries,               \* ChatGPTTupleArrayFetcher.max_retries
    attempt,                   \* generator calls made by this request
    system_prompt,             \* "expand", or "fix" once a response was rejected
    response_text,             \* the generator's last output, None before the first
    res,
    res_with_no_stop,
    es_query,
    response,                  \* the engine's response
    corrected_query,
    results,
    display_query_text,
    decoded,                   \* what decode_queries returned (codec round trip)
    parsed                     \* what _try_parse_search_highlight_json returned

vars == <<pc, nreq, page, request, query_text, previous_queries_encoded, queries,
          max_retries, attempt, system_prompt, response_text, res, res_with_no_stop,
          es_query, response, corrected_query, results, display_query_text,
          decoded, parsed>>

\* Requests one session makes.
MaxRequests == 2
\* Turns of a log drawn as an input.
MaxTurns == 2
\* llm.py line 22: the default of max_retries, which get_llm() takes.
DefaultMaxRetries == 3

\* "of Law", "tort"
Q_of_law == <<111, 102, 32, 76, 97, 119>>
Q_tort == <<116, 111, 114, 116>>
QueryTexts == {Q_of_law, Q_tort}

\* A valid expansion: {"search": [["tort", "a Tort"], ["law"]], "highlight": ["of", "tort law"]}
G_valid ==
    PyDict(<< <<S_search,
                PyList(<<PyList(<<PyStr(<<116, 111, 114, 116>>), PyStr(<<97, 32, 84, 111, 114, 116>>)>>),
                         PyList(<<PyStr(<<108, 97, 119>>)>>)>>)>>,
              <<S_highlight,
                PyList(<<PyStr(<<111, 102>>), PyStr(<<116, 111, 114, 116, 32, 108, 97, 119>>)>>)>> >>)

\* What the generator answers in the handler's runs.
GenOutputs == {G_valid, SyntaxErrorText}

\* Tokens a client sends that no encode_queries produced: "", "[]" (the
\* default of line 286), "e30" (base64 without its padding) and "e30="
\* (base64 of "{}").
BadTokens == {<<>>, <<91, 93>>, <<101, 51, 48>>, <<101, 51, 48, 61>>}

NoRequest ==
    [method |-> "GET", new_query_text |-> None, previous_queries_encoded |-> None,
     queries |-> None, previous_query |-> None]

\* A GET with the given URL parameters.
GetRequest(q, token) ==
    [NoRequest EXCEPT !.new_query_text = q, !.previous_queries_encoded = token]

\* The POST a browser makes from the rendered form (TEMPLATE, lines 332-336):
\* the text input new_query_text and the hidden input previous_query.
FormRequest(q, p) ==
    [NoRequest EXCEPT !.method = "POST", !.new_query_text = Some(q),
                      !.previous_query = Some(p.previous_queries_encoded)]

\* A POST by a client that fills the field search() reads, "queries".
ApiRequest(q, token) ==
    [NoRequest EXCEPT !.method = "POST", !.new_query_text = Some(q), !.queries = token]

TokensOf(p) == IF p = None THEN {} ELSE {p[1].previous_queries_encoded}

Requests(p) ==
    {GetRequest(None, None)}
    \cup {GetRequest(Some(q), tok) :
            q \in QueryTexts, tok \in {None} \cup {Some(x) : x \in BadTokens \cup TokensOf(p)}}
    \cup {ApiRequest(q, tok) :
            q \in QueryTexts, tok \in {None} \cup {Some(x) : x \in TokensOf(p)}}
    \cup (IF p = None THEN {}
          ELSE {FormRequest(q, p[1]) : q \in QueryTexts \cup {<<>>}})

\* dict.get(key, default)
Get(field, default) == IF field = None THEN default ELSE field[1]

\* The engine's responses in the handler's runs: hits is a list of
\* [highlight |-> the hit's fragments by field, document_url |-> str] (score,
\* date and case name are copied to the page unchanged and left out), suggest
\* the list response["suggest"]["spellcheck"].
E_empty == [suggest |-> <<>>, hits |-> <<>>]
E_hit ==
    [suggest |-> << [text |-> <<116, 111, 114, 116>>,
                     options |-> <<[text |-> <<116, 111, 114, 116, 101>>, freq |-> 60, score |-> 75]>>] >>,
     hits |-> << [highlight |-> << << <<97, 32, 60, 101, 109, 62, 116, 111, 114, 116, 60, 47, 101, 109, 62>> >> >>,
                  document_url |-> <<106, 49>>] >>]
EngineResponses == {E_empty, E_hit}

\* No request yet: the session and the generator client as constructed.
Session0 ==
    /\ nreq = 0
    /\ page = None
    /\ request = NoRequest
    /\ max_retries = DefaultMaxRetries
    /\ attempt = 0
    /\ system_prompt = "expand"
    /\ res = None
    /\ display_query_text = <<>>

Inputs0 ==
    /\ query_text = <<>>
    /\ queries = <<>>
    /\ res_with_no_stop = None
    /\ response_text = None
    /\ response = None

Outputs0 ==
    /\ previous_queries_encoded = <<>>
    /\ es_query = None
    /\ corrected_query = <<>>
    /\ results = <<>>
    /\ decoded = None
    /\ parsed = None

Init ==
    /\ pc = "idle"
    /\ Session0
    /\ Inputs0
    /\ Outputs0

\* Lines 282-292: a request arrives and search() reads its parameters.  A
\* POST takes the log from the form field "queries", and the encoding of the
\* empty log when the form has no such field.
Receive(r) ==
    /\ pc = "idle"
    /\ nreq < MaxRequests
    /\ nreq' = nreq + 1
    /\ request' = r
    /\ max_retries' = DefaultMaxRetries
    /\ query_text' = Get(r.new_query_text, <<>>)
    /\ previous_queries_encoded' =
           IF r.method = "POST"
           THEN Get(r.queries, encode_queries(<<>>))
           ELSE Get(r.previous_queries_encoded, <<91, 93>>)
    /\ queries' = <<>>
    /\ attempt' = 0
    /\ system_prompt' = "expand"
    /\ response_text' = None
    /\ res' = None
    /\ res_with_no_stop' = None
    /\ es_query' = None
    /\ response' = None
    /\ corrected_query' = <<>>
    /\ results' = <<>>
    /\ display_query_text' = <<>>
    /\ pc' = IF Get(r.new_query_text, <<>>) # <<>> THEN "decode" ELSE "render"
    /\ UNCHANGED <<page, decoded, parsed>>

\* Line 293.  Nothing catches what decode_queries raises.
Decode ==
    /\ pc = "decode"
    /\ \E d \in {decode_queries(previous_queries_encoded)} :
           IF d.ok
           THEN queries' = d.v /\ pc' = "llm"
           ELSE queries' = queries /\ pc' = "raised_decode"
    /\ UNCHANGED <<nreq, page, request, query_text, previous_queries_encoded,
                   max_retries, attempt, system_prompt, response_text, res,
                   res_with_no_stop, es_query, response, corrected_query, results,
                   display_query_text, decoded, parsed>>

\* llm.py lines 264-272 with a loop over range(max_retries + 1).
QueryChatGPTOneMore(out) ==
    /\ pc = "llm"
    /\ attempt <= max_retries
    /\ response_text' = Some(out)
    /\ attempt' = attempt + 1
    /\ \E parsed_search_highlight \in {try_parse_search_highlight_json(out)} :
           IF parsed_search_highlight # None
           THEN res' = parsed_search_highlight /\ pc' = "expanded"
                /\ system_prompt' = system_prompt
           ELSE res' = res /\ pc' = "llm" /\ system_prompt' = "fix"
    /\ UNCHANGED <<nreq, page, request, query_text, previous_queries_encoded, queries,
                   max_retries, res_with_no_stop, es_query, response, corrected_query,
                   results, display_query_text, decoded, parsed>>

\* llm.py lines 264-272: one pass of the loop.  The generator answers out;
\* a valid answer is returned, any other makes the next call a fix request.
QueryChatGPT(out) ==
    /\ pc = "llm"
    /\ attempt < max_retries
    /\ response_text' = Some(out)
    /\ attempt' = attempt + 1
    /\ \E parsed_search_highlight \in {try_parse_search_highlight_json(out)} :
           IF parsed_search_highlight # None
           THEN res' = parsed_search_highlight /\ pc' = "expanded"
                /\ system_prompt' = system_prompt
           ELSE res' = res /\ pc' = "llm" /\ system_prompt' = "fix"
    /\ UNCHANGED <<nreq, page, request, query_text, previous_queries_encoded, queries,
                   max_retries, res_with_no_stop, es_query, response, corrected_query,
                   results, display_query_text, decoded, parsed>>

\* llm.py lines 273-274: the loop ran max_retries times; None is returned.
MaxRetriesReached ==
    /\ pc = "llm"
    /\ attempt >= max_retries
    /\ res' = None
    /\ pc' = "expanded"
    /\ UNCHANGED <<nreq, page, request, query_text, previous_queries_encoded, queries,
                   max_retries, attempt, system_prompt, response_text,
                   res_with_no_stop, es_query, response, corrected_query, results,
                   display_query_text, decoded, parsed>>

\* Lines 295-296 with the fallback's search list left empty.
ResOrFallbackNoGroup(r, text) ==
    IF r = None THEN SearchHighlightResponse(<<>>, <<text>>) ELSE r[1]

\* Lines 295-296: the fallback when the generator gave nothing.
ResOrFallback(r, text) ==
    IF r = None THEN SearchHighlightResponse(<<<<text>>>>, <<text>>) ELSE r[1]

\* Lines 295-299: the new turn is appended and the query is built.
BuildQuery ==
    /\ pc = "expanded"
    /\ \E r \in {ResOrFallback(res, query_text)} :
       \E n \in {from_search_highlight_response(r)} :
       \E qs \in {Append(queries, <<query_text, n>>)} :
           /\ res' = Some(r)
           /\ res_with_no_stop' = Some(n)
           /\ queries' = qs
           /\ es_query' = Some(build_query_of_log(qs, n, query_text))
    /\ pc' = "es"
    /\ UNCHANGED <<nreq, page, request, query_text, previous_queries_encoded,
                   max_retries, attempt, system_prompt, response_text, response,
                   corrected_query, results, display_query_text, decoded, parsed>>

\* Lines 300-314: the engine answers resp.
EsSearch(resp) ==
    /\ pc = "es"
    /\ response' = Some(resp)
    /\ corrected_query' = get_corrected_query(resp.suggest, query_text)
    /\ results' = [h \in 1..Len(resp.hits) |->
                      [document_url |-> get_document_url(resp.hits[h].document_url),
                       snippets |-> get_snippets(resp.hits[h].highlight)]]
    /\ previous_queries_encoded' = encode_queries(queries)
    /\ display_query_text' = Join(<<44, 32>>, [i \in 1..Len(queries) |-> queries[i][1]])
    /\ pc' = "render"
    /\ UNCHANGED <<nreq, page, request, query_text, queries, max_retries, attempt,
                   system_prompt, response_text, res, res_with_no_stop, es_query,
                   decoded, parsed>>

\* Line 300: es.search raises (the engine is unreachable or refuses the query).
EsRaises ==
    /\ pc = "es"
    /\ pc' = "raised_es"
    /\ UNCHANGED <<nreq, page, request, query_text, previous_queries_encoded, queries,
                   max_retries, attempt, system_prompt, response_text, res,
                   res_with_no_stop, es_query, response, corrected_query, results,
                   display_query_text, decoded, parsed>>

\* Line 315: the page is rendered; the form's hidden input carries
\* previous_queries_encoded.
Render ==
    /\ pc = "render"
    /\ page' = Some([previous_queries_encoded |-> previous_queries_encoded,
                     display_query_text |-> display_query_text,
                     corrected_query |-> corrected_query,
                     results |-> results])
    /\ pc' = "idle"
    /\ UNCHANGED <<nreq, request, query_text, previous_queries_encoded, queries,
                   max_retries, attempt, system_prompt, response_text, res,
                   res_with_no_stop, es_query, response, corrected_query, results,
                   display_query_text, decoded, parsed>>

\* An exception left search(): the client gets an error page, without a form.
ServerError ==
    /\ pc \in {"raised_decode", "raised_es"}
    /\ page' = None
    /\ pc' = "idle"
    /\ UNCHANGED <<nreq, request, query_text, previous_queries_encoded, queries,
                   max_retries, attempt, system_prompt, response_text, res,
                   res_with_no_stop, es_query, response, corrected_query, results,
                   display_query_text, decoded, parsed>>

Next ==
    \/ \E r \in Requests(page) : Receive(r)
    \/ Decode
    \/ \E out \in GenOutputs : QueryChatGPT(out)
    \/ MaxRetriesReached
    \/ BuildQuery
    \/ \E resp \in EngineResponses : EsSearch(resp)
    \/ EsRaises
    \/ Render
    \/ ServerError

Spec == Init /\ [][Next]_vars

(***************************************************************************)
(* The functions on their own: each specification below starts in a state  *)
(* that holds the arguments of one function and applies it.                *)
(***************************************************************************)

\* Terms of the drawn logs: "of Law"; a text with a letter outside ASCII, a
\* quote and a backslash; "the act" with a stored form the stopword list no
\* longer gives; "of", whose stripped form is empty.
T_law == Term(Q_of_law)
T_quote == Term(<<201, 34, 92>>)
T_stale == [text |-> <<116, 104, 101, 32, 97, 99, 116>>, no_stop |-> <<116, 104, 101, 32, 97, 99, 116>>]
T_of == Term(<<111, 102>>)

X_one == [search |-> << <<T_law>> >>, highlight |-> <<T_law>>]
X_empty_group == [search |-> << <<>> >>, highlight |-> <<>>]
X_two_groups == [search |-> << <<T_quote, T_stale>>, <<T_law>> >>, highlight |-> <<T_of, T_stale>>]
X_no_group == [search |-> <<>>, highlight |-> <<T_quote>>]

Turns ==
    {<<Q_of_law, X_one>>, <<Q_of_law, X_two_groups>>, <<Q_tort, X_one>>,
     <<Q_tort, X_empty_group>>, <<Q_tort, X_two_groups>>, <<Q_tort, X_no_group>>,
     <<<<201>>, X_empty_group>>, <<<<201>>, X_two_groups>>}

Logs == UNION {[1..n -> Turns] : n \in 0..MaxTurns}

\* ---- encode_queries, then decode_queries on its result

InitCodec ==
    /\ pc = "encode"
    /\ Session0
    /\ queries \in Logs
    /\ query_text = <<>>
    /\ res_with_no_stop = None
    /\ response_text = None
    /\ response = None
    /\ Outputs0

\* Line 313
EncodeLog ==
    /\ pc = "encode"
    /\ previous_queries_encoded' = encode_queries(queries)
    /\ pc' = "decode_back"
    /\ UNCHANGED <<nreq, page, request, query_text, queries, max_retries, attempt,
                   system_prompt, response_text, res, res_with_no_stop, es_query,
                   response, corrected_query, results, display_query_text, decoded,
                   parsed>>

\* Line 293, on the token just made
DecodeBack ==
    /\ pc = "decode_back"
    /\ decoded' = Some(decode_queries(previous_queries_encoded))
    /\ pc' = "decoded"
    /\ UNCHANGED <<nreq, page, request, query_text, previous_queries_encoded, queries,
                   max_retries, attempt, system_prompt, response_text, res,
                   res_with_no_stop, es_query, response, corrected_query, results,
                   display_query_text, parsed>>

NextCodec == EncodeLog \/ DecodeBack

SpecCodec == InitCodec /\ [][NextCodec]_vars

\* ---- build_query as line 299 calls it, on a log that ends with the new turn

InitBuild ==
    /\ pc = "build"
    /\ Session0
    /\ queries \in Logs \ {<<>>}
    /\ query_text = queries[Len(queries)][1]
    /\ res_with_no_stop = Some(queries[Len(queries)][2])
    /\ response_text = None
    /\ response = None
    /\ Outputs0

BuildOnly ==
    /\ pc = "build"
    /\ es_query' = Some(build_query_of_log(queries, res_with_no_stop[1], query_text))
    /\ pc' = "built"
    /\ UNCHANGED <<nreq, page, request, query_text, previous_queries_encoded, queries,
                   max_retries, attempt, system_prompt, response_text, res,
                   res_with_no_stop, response, corrected_query, results,
                   display_query_text, decoded, parsed>>

NextBuild == BuildOnly

SpecBuild == InitBuild /\ [][NextBuild]_vars

\* ---- _try_parse_search_highlight_json on one generator output

P_a == PyStr(<<97>>)

\* Values a generator output gives for "search" and for "highlight".
SearchValues ==
    <<PyList(<<>>), PyList(<<PyList(<<>>)>>), PyList(<<PyList(<<P_a>>)>>),
      PyList(<<PyList(<<P_a, P_a>>), PyList(<<>>)>>), PyList(<<PyList(<<PyInt(1)>>)>>),
      PyList(<<P_a>>), P_a>>
HighlightValues == <<PyList(<<>>), PyList(<<P_a>>), PyList(<<P_a, PyInt(1)>>), P_a>>

\* "extra"
S_extra == <<101, 120, 116, 114, 97>>

\* The dict with "search" (the sv-th value; none when sv = 0), "highlight"
\* (likewise) and, when asked, a third key "extra".
DictOutput(sv, hv, extra) ==
    PyDict((IF sv = 0 THEN <<>> ELSE << <<S_search, SearchValues[sv]>> >>)
           \o (IF hv = 0 THEN <<>> ELSE << <<S_highlight, HighlightValues[hv]>> >>)
           \o (IF extra THEN << <<S_extra, P_a>> >> ELSE <<>>))

\* Outputs that are no dict: text that is no JSON, a list, a string.
OtherOutputs == <<SyntaxErrorText, PyList(<<>>), P_a>>

InitParse ==
    /\ pc = "parse"
    /\ Session0
    /\ \/ \E sv \in 0..Len(SearchValues), hv \in 0..Len(HighlightValues), extra \in BOOLEAN :
              response_text = Some(DictOutput(sv, hv, extra))
       \/ \E k \in 1..Len(OtherOutputs) : response_text = Some(OtherOutputs[k])
    /\ query_text = <<>>
    /\ queries = <<>>
    /\ res_with_no_stop = None
    /\ response = None
    /\ Outputs0

\* llm.py line 266
TryParse ==
    /\ pc = "parse"
    /\ parsed' = Some(try_parse_search_highlight_json(response_text[1]))
    /\ pc' = "parsed"
    /\ UNCHANGED <<nreq, page, request, query_text, previous_queries_encoded, queries,
                   max_retries, attempt, system_prompt, response_text, res,
                   res_with_no_stop, es_query, response, corrected_query, results,
                   display_query_text, decoded>>

NextParse == TryParse

SpecParse == InitParse /\ [][NextParse]_vars

\* ---- get_corrected_query on a suggestion block of the engine

\* "Tort", "tort " (a space after the word), "tort law"
CorrectedQueries == {<<84, 111, 114, 116>>, <<116, 111, 114, 116, 32>>, <<116, 111, 114, 116, 32, 108, 97, 119>>}

\* The first options of an entry, around the thresholds of line 245.
TopOptions ==
    {[text |-> <<116, 111, 114, 116, 101>>, freq |-> f, score |-> sc] :
        f \in {5, 6, 50, 51, 60}, sc \in {70, 71, 75, 85, 90, 91}}

\* A second option; the engine lists options by falling score.
SecondOption == [text |-> <<116, 97, 114, 116>>, freq |-> 60, score |-> 80]

OptionLists ==
    {<<>>} \cup {<<o>> : o \in TopOptions}
    \cup {<<o, SecondOption>> : o \in {x \in TopOptions : x.score >= SecondOption.score}}

\* The engine's suggestion blocks for a query: one entry for every word, its
\* text the word in lower case (the analyzed term).
SuggestionsFor(q) ==
    LET words == Split(q)
    IN  {[i \in 1..Len(words) |->
            [text |-> Lower(words[i]),
             options |-> IF i = 1 THEN first
                         ELSE IF more THEN <<[text |-> <<115, 97, 119>>, freq |-> 60, score |-> 75]>>
                         ELSE <<>>]] :
            first \in OptionLists, more \in BOOLEAN}

InitCorrected ==
    /\ pc = "correct"
    /\ Session0
    /\ query_text \in CorrectedQueries
    /\ response \in {Some([suggest |-> sg, hits |-> <<>>]) : sg \in SuggestionsFor(query_text)}
    /\ queries = <<>>
    /\ res_with_no_stop = None
    /\ response_text = None
    /\ Outputs0

\* Line 301
Correct ==
    /\ pc = "correct"
    /\ corrected_query' = get_corrected_query(response[1].suggest, query_text)
    /\ pc' = "corrected"
    /\ UNCHANGED <<nreq, page, request, query_text, previous_queries_encoded, queries,
                   max_retries, attempt, system_prompt, response_text, res,
                   res_with_no_stop, es_query, response, results, display_query_text,
                   decoded, parsed>>

NextCorrected == Correct

SpecCorrected == InitCorrected /\ [][NextCorrected]_vars

\* ---- get_snippets on the fragments of a hit

\* A fragment as the engine marks it: pieces of text, some of them emphasised.
Piece(em, text) == [em |-> em, text |-> text]

\* "the ", " text", and the emphasised "murder", "Murder weapon", "unrelated", "the"
Pieces ==
    {Piece(FALSE, <<116, 104, 101, 32>>), Piece(FALSE, <<32, 116, 101, 120, 116>>),
     Piece(TRUE, <<109, 117, 114, 100, 101, 114>>), Piece(TRUE, <<77, 117, 114, 100, 101, 114, 32, 119, 101, 97, 112, 111, 110>>),
     Piece(TRUE, <<117, 110, 114, 101, 108, 97, 116, 101, 100>>), Piece(TRUE, <<116, 104, 101>>)}

MarkedFragments == UNION {[1..n -> Pieces] : n \in 1..2}

\* The fragment's text, "<em>" and "</em>" around every emphasised piece.
FragmentText(f) ==
    Concat([i \in 1..Len(f) |->
        IF f[i].em THEN S_em \o f[i].text \o S_em_close ELSE f[i].text])

\* "the murder", "Murder of homicide"
SnippetQueries == {<<116, 104, 101, 32, 109, 117, 114, 100, 101, 114>>, <<72, 111, 109, 105, 99, 105, 100, 101, 32, 111, 102, 32, 109, 117, 114, 100, 101, 114>>}

InitSnippets ==
    /\ pc = "snippets"
    /\ Session0
    /\ query_text \in SnippetQueries
    /\ response \in {Some([suggest |-> <<>>,
                           hits |-> << [highlight |-> << <<FragmentText(f)>> >>,
                                        document_url |-> <<>>] >>]) :
                        f \in MarkedFragments}
    /\ queries = <<>>
    /\ res_with_no_stop = None
    /\ response_text = None
    /\ Outputs0

\* Lines 302-312
Snippets ==
    /\ pc = "snippets"
    /\ results' = [h \in 1..Len(response[1].hits) |->
                      [document_url |-> get_document_url(response[1].hits[h].document_url),
                       snippets |-> get_snippets(response[1].hits[h].highlight)]]
    /\ pc' = "snipped"
    /\ UNCHANGED <<nreq, page, request, query_text, previous_queries_encoded, queries,
                   max_retries, attempt, system_prompt, response_text, res,
                   res_with_no_stop, es_query, response, corrected_query,
                   display_query_text, decoded, parsed>>

NextSnippets == Snippets

SpecSnippets == InitSnippets /\ [][NextSnippets]_vars

\* ---- fetch_search_highlight of a client made with any max_retries

\* The largest max_retries a client is made with.
MaxRetriesBound == 3

InitRetry ==
    /\ pc = "llm"
    /\ nreq = 0
    /\ page = None
    /\ request = NoRequest
    /\ max_retries \in 1..MaxRetriesBound
    /\ attempt = 0
    /\ system_prompt = "expand"
    /\ res = None
    /\ display_query_text = <<>>
    /\ query_text \in QueryTexts
    /\ queries = <<>>
    /\ res_with_no_stop = None
    /\ response_text = None
    /\ response = None
    /\ Outputs0

\* The generator answers a dict, or something that is no dict; when the loop
\* has returned, fetch_search_highlight makes no further step.
NextRetry ==
    \/ \E sv \in 0..Len(SearchValues), hv \in 0..Len(HighlightValues), extra \in BOOLEAN :
           QueryChatGPT(DictOutput(sv, hv, extra))
    \/ \E k \in 1..Len(OtherOutputs) : QueryChatGPT(OtherOutputs[k])
    \/ MaxRetriesReached

SpecRetry == InitRetry /\ [][NextRetry]_vars

(***************************************************************************)
(* Properties                                                              *)
(***************************************************************************)

\* The retry loop ended without a valid answer: every answer of the generator
\* was rejected.
GeneratorExhausted ==
    /\ attempt >= max_retries
    /\ \/ response_text = None
       \/ try_parse_search_highlight_json(response_text[1]) = None

\* C1: when each of the max_retries answers of the generator fails the
\* validation, the request reaches the engine call, nothing raised, with the
\* expansion [[query_text]], [query_text]: the turn appended to the log has
\* one group whose only term is the raw query verbatim, and the query built
\* ends with the clause of that group.
C1_FallbackOnExhaustion ==
    (pc = "es" /\ GeneratorExhausted) =>
        /\ attempt = max_retries
        /\ res = Some(SearchHighlightResponse(<< <<query_text>> >>, <<query_text>>))
        /\ res_with_no_stop = Some([search |-> << <<Term(query_text)>> >>,
                                    highlight |-> <<Term(query_text)>>])
        /\ queries[Len(queries)] = <<query_text, res_with_no_stop[1]>>
        /\ es_query # None
        /\ LET must == es_query[1].query.function_score.query.bool.must
           IN  /\ must # <<>>
               /\ must[Len(must)].bool.should = <<MatchPhrase(remove_stopwords(query_text))>>

\* The second request of a session, "of Law", is about to call the engine
\* after three rejected answers.
C1_Witness ==
    /\ pc = "es"
    /\ GeneratorExhausted
    /\ attempt = DefaultMaxRetries
    /\ query_text = Q_of_law
    /\ Len(queries) = 2

\* C2: for every log L, decode_queries(encode_queries(L)) returns L: the same
\* turns in the same order, the same query text, groups and terms, and for
\* every term the stripped form that was encoded.
C2_RoundTrip ==
    pc = "decoded" => decoded = Some([ok |-> TRUE, v |-> queries])

\* A log went through the codec that has a letter outside ASCII, a quote, a
\* backslash, a term whose stored stripped form is not what remove_stopwords
\* gives, and an empty group.
C2_Witness ==
    /\ pc = "decoded"
    /\ queries = << <<<<201>>, X_two_groups>>, <<Q_tort, X_empty_group>> >>
    /\ T_stale.no_stop # remove_stopwords(T_stale.text)
    /\ decoded # None
    /\ decoded[1].ok

\* The request being handled has a query and comes by GET with a token that
\* is absent, empty or decodes to no log.
TokenUnusable ==
    /\ request.method = "GET"
    /\ request.new_query_text \notin {None, Some(<<>>)}
    /\ \/ request.previous_queries_encoded = None
       \/ ~decode_queries(request.previous_queries_encoded[1]).ok

\* C3: a request with a query whose token is absent, empty or malformed is
\* handled as if the prior log were empty: decoding raises nothing, and the
\* search runs on the log of the new turn alone.
C3_UnusableTokenIsEmptyLog ==
    TokenUnusable =>
        /\ pc # "raised_decode"
        /\ pc = "llm" => queries = <<>>
        /\ pc = "es" => Len(queries) = 1

\* The must list of a built query, and the should list of its highlight query.
MustOf(q) == q.query.function_score.query.bool.must
HighlightShouldOf(q) == q.highlight.fields.document_text.highlight_query.bool.should

\* The groups of all turns of a log, and the terms of a list of groups, in order.
RECURSIVE GroupsOf(_)
GroupsOf(log) ==
    IF log = <<>> THEN <<>> ELSE log[1][2].search \o GroupsOf(Tail(log))

RECURSIVE TermsOf(_)
TermsOf(groups) ==
    IF groups = <<>> THEN <<>> ELSE groups[1] \o TermsOf(Tail(groups))

HighlightClauses(highlights) ==
    LET kept == SelectSeq(highlights, LAMBDA h : h.no_stop # <<>>)
    IN  [k \in 1..Len(kept) |-> MatchPhraseBoost(kept[k].no_stop, 1)]

WordsOf(text) == {Lower(Split(text)[i]) : i \in 1..Len(Split(text))}

\* The stopword-stripped vocabulary of the current and the corrected query.
Vocabulary(query, corrected) ==
    WordsOf(remove_stopwords(query)) \cup WordsOf(remove_stopwords(corrected))

\* A fragment with the emphasis kept (as the mark element) on the pieces that
\* have a word in the vocabulary, and removed from the others.
CleanedFragment(f, vocab) ==
    Concat([i \in 1..Len(f) |->
        IF f[i].em /\ WordsOf(f[i].text) \cap vocab # {}
        THEN S_mark \o f[i].text \o S_mark_close
        ELSE f[i].text])

\* C6: in every snippet, an emphasised span keeps its emphasis only if one of
\* its words is, case-insensitively, in the stopword-stripped vocabulary of
\* the query; any other emphasised span appears as plain text.
C6_UngroundedEmphasisStripped ==
    pc = "snipped" =>
        \A f \in MarkedFragments :
            response[1].hits[1].highlight[1][1] = FragmentText(f) =>
                results[1].snippets[1] = CleanedFragment(f, Vocabulary(query_text, corrected_query))

IsStrValue(x) == x.t = "str"

\* A dict with exactly the keys "search" and "highlight", "search" a list of
\* non-empty lists of strings, "highlight" a list of strings.
StrictShape(output) ==
    /\ output.t = "dict"
    /\ {output.v[i][1] : i \in 1..Len(output.v)} = {S_search, S_highlight}
    /\ ObjGet(output, S_highlight).t = "list"
    /\ \A k \in 1..Len(ObjGet(output, S_highlight).v) :
           IsStrValue(ObjGet(output, S_highlight).v[k])
    /\ ObjGet(output, S_search).t = "list"
    /\ \A g \in 1..Len(ObjGet(output, S_search).v) :
           LET group == ObjGet(output, S_search).v[g]
           IN  /\ group.t = "list"
               /\ group.v # <<>>
               /\ \A k \in 1..Len(group.v) : IsStrValue(group.v[k])

\* C7: a generator response is accepted only if it is a dict with exactly
\* the keys "search" and "highlight", "search" a list of non-empty lists of
\* strings and "highlight" a list of strings; every other response, one with
\* an empty group or with an extra key included, is rejected.
C7_AcceptedOnlyIfStrict ==
    pc = "parsed" => (parsed[1] # None => StrictShape(response_text[1]))

\* C8: when the client posts the rendered form of the page it holds, the log
\* the query is built from is the log of that page with exactly one new turn
\* appended at the end.
C8_FormAppendsToPriorLog ==
    (pc = "es" /\ page # None /\ request = FormRequest(query_text, page[1])) =>
        LET prior == decode_queries(page[1].previous_queries_encoded)
            log == IF prior.ok THEN prior.v ELSE <<>>
        IN  queries = Append(log, <<query_text, res_with_no_stop[1]>>)

\* The thresholds of the spelling correction, scores in hundredths.
MeetsThreshold(o) ==
    \/ o.freq > 5 /\ o.score > 90
    \/ o.freq > 50 /\ o.score > 70

\* C9 (amended): for every suggestion slot the output token is the top
\* (first) alternative if and only if the slot has alternatives and the top
\* one has (frequency > 5 and score > 0.9) or (frequency > 50 and score >
\* 0.7); otherwise the output token is the slot's original token, whatever
\* the other alternatives are.  A corrected query that is shown is these
\* tokens joined by single spaces.
C9_TopAlternativeThreshold ==
    pc = "corrected" =>
        LET slots == response[1].suggest
            out == corrected_terms(slots)
        IN  /\ Len(out) = Len(slots)
            /\ \A i \in 1..Len(slots) :
                   out[i] = IF slots[i].options # <<>> /\ MeetsThreshold(slots[i].options[1])
                            THEN slots[i].options[1].text
                            ELSE slots[i].text
            /\ corrected_query # <<>> => Split(corrected_query) = out

\* "tort law" was corrected to "tort saw": the first slot kept its token,
\* its top alternative (5, 0.91) below the threshold and its second
\* alternative (60, 0.80) above it; the second slot took (60, 0.75).
C9_Witness ==
    /\ pc = "corrected"
    /\ query_text = <<116, 111, 114, 116, 32, 108, 97, 119>>
    /\ response[1].suggest[1].options = <<[text |-> <<116, 111, 114, 116, 101>>, freq |-> 5, score |-> 91], SecondOption>>
    /\ response[1].suggest[2].options # <<>>
    /\ corrected_query = <<116, 111, 114, 116, 32, 115, 97, 119>>

\* C9 as stated: the output token is the top alternative if and only if the
\* slot has an alternative that meets the threshold; otherwise it is the
\* slot's original token.
C9_AnyAlternativeThreshold ==
    pc = "corrected" =>
        LET slots == response[1].suggest
            out == corrected_terms(slots)
        IN  \A i \in 1..Len(slots) :
                LET options == slots[i].options
                    some == \E k \in 1..Len(options) : MeetsThreshold(options[k])
                IN  /\ (options # <<>> /\ out[i] = options[1].text) <=> some
                    /\ ~some => out[i] = slots[i].text

\* C10: if the output tokens equal, case-insensitively, the tokens of the
\* original query, get_corrected_query returns the empty string.
C10_SuppressedOnEqualTokens ==
    pc = "corrected" =>
        LET out == corrected_terms(response[1].suggest)
            words == Split(query_text)
        IN  [i \in 1..Len(out) |-> Lower(out[i])] = [i \in 1..Len(words) |-> Lower(words[i])]
                => corrected_query = <<>>

\* Every clause of a built query that can carry a weight: the scoring
\* functions, the phrases of the filter, the clauses of the highlight query.
ClausesOf(q) ==
    q.query.function_score.functions
    \o Concat([n \in 1..Len(MustOf(q)) |-> MustOf(q)[n].bool.should])
    \o HighlightShouldOf(q)

\* The weights of the clauses of one kind ("match_phrase", "match", "fuzzy")
\* in a built query.
IsWeighted(c, kind) ==
    /\ kind \in DOMAIN c
    /\ "boost" \in DOMAIN c[kind].document_text

WeightsOfKind(q, kind) ==
    {ClausesOf(q)[i][kind].document_text.boost :
        i \in {j \in 1..Len(ClausesOf(q)) : IsWeighted(ClausesOf(q)[j], kind)}}

\* The weights of the phrase clauses on one text.
WeightsOfPhrase(q, text) ==
    {ClausesOf(q)[i].match_phrase.document_text.boost :
        i \in {j \in 1..Len(ClausesOf(q)) :
                  /\ IsWeighted(ClausesOf(q)[j], "match_phrase")
                  /\ ClausesOf(q)[j].match_phrase.document_text.query = text}}

\* C11: in every query built by build_query, every phrase of the log is
\* scored by boost clauses with strictly ordered weights: the weight of the
\* phrase clause on its raw text is greater than that of the phrase clause on
\* its stripped form, which is greater than the weight of a plain token
\* match clause, which is greater than the weight of a fuzzy match clause.
C11_BoostWeightsOrdered ==
    pc = "built" =>
        \A n \in 1..Len(TermsOf(GroupsOf(queries))) :
            LET term == TermsOf(GroupsOf(queries))[n]
            IN  \E exact \in WeightsOfPhrase(es_query[1], term.text),
                   stripped \in WeightsOfPhrase(es_query[1], term.no_stop),
                   plain \in WeightsOfKind(es_query[1], "match"),
                   fuzzy \in WeightsOfKind(es_query[1], "fuzzy") :
                    exact > stripped /\ stripped > plain /\ plain > fuzzy

\* The last response of the generator was rejected.
LastRejected ==
    /\ response_text # None
    /\ try_parse_search_highlight_json(response_text[1]) = None

\* fetch_search_highlight has returned a response (Succeeded), or None
\* (Exhausted).
Succeeded == pc = "expanded" /\ res # None
Exhausted == pc = "expanded" /\ res = None

\* At most max_retries calls are made; while the loop runs every response so
\* far was rejected and the loop has a next step; Succeeded holds the
\* response of the last call, which validates; Exhausted comes after exactly
\* max_retries calls, the last one rejected as well.
RetryInv ==
    /\ attempt \in 0..max_retries
    /\ pc \in {"llm", "expanded"}
    /\ pc = "llm" => /\ attempt = 0 \/ LastRejected
                     /\ ENABLED NextRetry
    /\ Succeeded => /\ attempt >= 1
                    /\ response_text # None
                    /\ res = try_parse_search_highlight_json(response_text[1])
    /\ Exhausted => attempt = max_retries /\ LastRejected

\* A step is one call, made while the loop runs and calls remain, or the
\* return of None after the last call: every step uses up a call or ends
\* the loop, and once fetch_search_highlight has returned no call is made.
RetryStep ==
    /\ pc = "llm"
    /\ \/ /\ attempt < max_retries
          /\ attempt' = attempt + 1
          /\ response_text' # None
          /\ pc' = IF try_parse_search_highlight_json(response_text'[1]) = None
                   THEN "llm" ELSE "expanded"
       \/ /\ attempt' = attempt
          /\ attempt = max_retries
          /\ pc' = "expanded"
          /\ res' = None

\* C12: for every max_retries N >= 1 and every sequence of responses,
\* fetch_search_highlight ends after at most N calls of the generator, either
\* Succeeded, at the first response that validates and with no call after
\* it, or Exhausted, after exactly N responses that were each rejected.
C12_RetryStateMachine ==
    /\ []RetryInv
    /\ [][RetryStep]_<<pc, attempt>>

\* A client with max_retries 3 succeeded at its second call, made with the
\* fix prompt, and made no third.
C12_Witness ==
    /\ Succeeded
    /\ max_retries = 3
    /\ attempt = 2
    /\ system_prompt = "fix"

=============================================================================
